---------------------------- MODULE Spec2Model ----------------------------
(***************************************************************************)
(* A model of deid_ecg.py: main loads the two key tables and walks the     *)
(* input documents; deidentify redacts one document (a sequence of text    *)
(* elements) and writes it under a surrogate name.                         *)
(*                                                                         *)
(* Texts are strings; a datetime is a record of its calendar fields and a  *)
(* timedelta a record of days and seconds, as in Python.  The wall-clock   *)
(* prefix of a log line is left out of the log.                            *)
(***************************************************************************)
EXTENDS Integers, Sequences, FiniteSets, TLC

\* The longest batch of documents main walks.
MaxBatch == 2

(***************************************************************************)
(* Python strings.                                                         *)
(***************************************************************************)
Char(s, i) == SubSeq(s, i, i)

SetMin(S) == CHOOSE m \in S : \A n \in S : m <= n

\* A slice bound as Python normalises it: negative counts from the end,
\* and the result is clamped to 0..len.
SliceBound(i, n) ==
    IF i < 0 THEN (IF i + n < 0 THEN 0 ELSE i + n)
    ELSE (IF i > n THEN n ELSE i)

\* s[:stop]
SliceTo(s, stop) == SubSeq(s, 1, SliceBound(stop, Len(s)))

\* s[start:]
SliceFrom(s, start) == SubSeq(s, SliceBound(start, Len(s)) + 1, Len(s))

FirstOrMinusOne(at) == IF at = {} THEN -1 ELSE SetMin(at)

\* s.find(sub): the lowest 0-based index of sub in s, or -1.
find(s, sub) ==
    FirstOrMinusOne({i \in 0..(Len(s) - Len(sub)) : SubSeq(s, i + 1, i + Len(sub)) = sub})

\* s.count(c) for a one-character c.
count(s, c) == Cardinality({i \in 1..Len(s) : Char(s, i) = c})

UpperLetters == "ABCDEFGHIJKLMNOPQRSTUVWXYZ"
LowerLetters == "abcdefghijklmnopqrstuvwxyz"
Digits == "0123456789"

\* c, or the letter of `to` at the place c has in `from`.
MapChar(c, k, to) == IF k >= 0 THEN Char(to, k + 1) ELSE c

LowerChar(c) == MapChar(c, find(UpperLetters, c), LowerLetters)

UpperChar(c) == MapChar(c, find(LowerLetters, c), UpperLetters)

RECURSIVE lower(_)
lower(s) == IF s = "" THEN "" ELSE LowerChar(Char(s, 1)) \o lower(SubSeq(s, 2, Len(s)))

RECURSIVE upper(_)
upper(s) == IF s = "" THEN "" ELSE UpperChar(Char(s, 1)) \o upper(SubSeq(s, 2, Len(s)))

\* re.match(pattern, text) for the literal patterns of ele_idx: a prefix match.
re_match(pattern, text) ==
    Len(text) >= Len(pattern) /\ SubSeq(text, 1, Len(pattern)) = pattern

IsDigit(c) == Len(c) = 1 /\ find(Digits, c) >= 0

AllDigits(s) == s /= "" /\ \A i \in 1..Len(s) : IsDigit(Char(s, i))

\* int(s) for a string of decimal digits.
RECURSIVE ToInt(_)
ToInt(s) ==
    IF s = "" THEN 0
    ELSE 10 * ToInt(SubSeq(s, 1, Len(s) - 1)) + find(Digits, Char(s, Len(s)))

\* str(n) for an int.
RECURSIVE NatStr(_)
NatStr(n) == IF n < 10 THEN Char(Digits, n + 1)
             ELSE NatStr(n \div 10) \o Char(Digits, (n % 10) + 1)

IntStr(n) == IF n < 0 THEN "-" \o NatStr(-n) ELSE NatStr(n)

\* Zero-padded fields of strftime: %d %m %H %M %S, and %Y.
Pad2(n) == Char(Digits, ((n \div 10) % 10) + 1) \o Char(Digits, (n % 10) + 1)

Pad4(n) == Pad2(n \div 100) \o Pad2(n % 100)

\* s.split(sep)[0], and s.split()[0] for sep = " "
BeforeFirstAt(s, k) == IF k < 0 THEN s ELSE SliceTo(s, k)

BeforeFirst(s, sep) == BeforeFirstAt(s, find(s, sep))

\* s.split(sep)[-1] for a one-character sep
RECURSIVE AfterLast(_, _)
AfterLast(s, sep) ==
    IF find(s, sep) < 0 THEN s ELSE AfterLast(SliceFrom(s, find(s, sep) + 1), sep)

(***************************************************************************)
(* datetime: the proleptic Gregorian calendar of Python's datetime.        *)
(***************************************************************************)
MonthAbbr == <<"Jan", "Feb", "Mar", "Apr", "May", "Jun",
               "Jul", "Aug", "Sep", "Oct", "Nov", "Dec">>

DaysInMonthTable == <<31, 28, 31, 30, 31, 30, 31, 31, 30, 31, 30, 31>>

IsLeap(y) == y % 4 = 0 /\ (y % 100 /= 0 \/ y % 400 = 0)

DaysInMonth(y, m) == IF m = 2 /\ IsLeap(y) THEN 29 ELSE DaysInMonthTable[m]

DaysBeforeYear(y) ==
    (y - 1) * 365 + ((y - 1) \div 4) - ((y - 1) \div 100) + ((y - 1) \div 400)

RECURSIVE DaysBeforeMonth(_, _)
DaysBeforeMonth(y, m) ==
    IF m = 1 THEN 0 ELSE DaysBeforeMonth(y, m - 1) + DaysInMonth(y, m - 1)

DateTime(y, mo, d, h, mi, s) ==
    [year |-> y, month |-> mo, day |-> d, hour |-> h, minute |-> mi, second |-> s]

ValidDateTime(y, mo, d, h, mi, s) ==
    /\ y \in 1..9999 /\ mo \in 1..12 /\ d >= 1 /\ d <= DaysInMonth(y, mo)
    /\ h \in 0..23 /\ mi \in 0..59 /\ s \in 0..59

toordinal(dt) == DaysBeforeYear(dt.year) + DaysBeforeMonth(dt.year, dt.month) + dt.day

\* The seconds since midnight.
SecondOfDay(dt) == dt.hour * 3600 + dt.minute * 60 + dt.second

\* The year, month and day of a day number (datetime's _ord2ymd): the
\* 400-, 100-, 4- and 1-year cycles before it, then the month.
YmdMonth(y, n, m) == [year |-> y, month |-> m, day |-> n - DaysBeforeMonth(y, m) + 1]

Ymd1(n100, n1, n, y) ==
    IF n1 = 4 \/ n100 = 4
    THEN [year |-> y - 1, month |-> 12, day |-> 31]
    ELSE YmdMonth(y, n, CHOOSE k \in 1..12 :
                            /\ DaysBeforeMonth(y, k) <= n
                            /\ n < DaysBeforeMonth(y, k) + DaysInMonth(y, k))

Ymd4(n400, n100, n4, r) ==
    Ymd1(n100, r \div 365, r % 365, n400 * 400 + 1 + n100 * 100 + n4 * 4 + (r \div 365))

Ymd100(n400, n100, r) == Ymd4(n400, n100, r \div 1461, r % 1461)

Ymd400(n400, r) == Ymd100(n400, r \div 36524, r % 36524)

ord2ymd(ordinal) == Ymd400((ordinal - 1) \div 146097, (ordinal - 1) % 146097)

\* A timedelta, as Python normalises it: 0 <= seconds < 86400.
timedelta(days, seconds) ==
    [days |-> days + (seconds \div 86400), seconds |-> seconds % 86400]

\* datetime - datetime.
DtDiff(a, b) == timedelta(toordinal(a) - toordinal(b), SecondOfDay(a) - SecondOfDay(b))

Combine(ymd, secs) ==
    DateTime(ymd.year, ymd.month, ymd.day,
             secs \div 3600, (secs % 3600) \div 60, secs % 60)

FromDelta(r) == Combine(ord2ymd(r.days), r.seconds)

\* datetime - timedelta.
DtMinus(a, td) ==
    FromDelta(timedelta(toordinal(a) - td.days, SecondOfDay(a) - td.seconds))

\* a < b on datetimes.
DtLess(a, b) ==
    \/ toordinal(a) < toordinal(b)
    \/ toordinal(a) = toordinal(b) /\ SecondOfDay(a) < SecondOfDay(b)

(***************************************************************************)
(* strftime and strptime, for the directives the program uses.             *)
(***************************************************************************)
Directive(dt, d) ==
    CASE d = "d" -> Pad2(dt.day)
      [] d = "b" -> MonthAbbr[dt.month]
      [] d = "m" -> Pad2(dt.month)
      [] d = "Y" -> Pad4(dt.year)
      [] d = "H" -> Pad2(dt.hour)
      [] d = "M" -> Pad2(dt.minute)
      [] d = "S" -> Pad2(dt.second)

RECURSIVE strftime(_, _)
strftime(dt, fmt) ==
    IF fmt = "" THEN ""
    ELSE IF Char(fmt, 1) = "%"
         THEN Directive(dt, Char(fmt, 2)) \o strftime(dt, SubSeq(fmt, 3, Len(fmt)))
         ELSE Char(fmt, 1) \o strftime(dt, SubSeq(fmt, 2, Len(fmt)))

\* The width of a numeric field.
FieldWidth(d) == IF d = "Y" THEN 4 ELSE 2

\* The fields strptime reads off s under fmt (zero-padded numeric fields);
\* ok is FALSE where strptime raises ValueError.
RECURSIVE StrptimeScan(_, _, _)
StrptimeScan(s, fmt, acc) ==
    IF fmt = "" THEN [acc EXCEPT !.ok = (s = "")]
    ELSE IF Char(fmt, 1) = "%"
         THEN IF Len(s) < FieldWidth(Char(fmt, 2))
                 \/ ~AllDigits(SubSeq(s, 1, FieldWidth(Char(fmt, 2))))
              THEN [acc EXCEPT !.ok = FALSE]
              ELSE StrptimeScan(SubSeq(s, FieldWidth(Char(fmt, 2)) + 1, Len(s)),
                                SubSeq(fmt, 3, Len(fmt)),
                                [acc EXCEPT ![Char(fmt, 2)] =
                                     ToInt(SubSeq(s, 1, FieldWidth(Char(fmt, 2))))])
         ELSE IF s /= "" /\ Char(s, 1) = Char(fmt, 1)
              THEN StrptimeScan(SubSeq(s, 2, Len(s)), SubSeq(fmt, 2, Len(fmt)), acc)
              ELSE [acc EXCEPT !.ok = FALSE]

StrptimeResult(f) ==
    [ok |-> f.ok /\ ValidDateTime(f.Y, f.m, f.d, f.H, f.M, f.S),
     dt |-> DateTime(f.Y, f.m, f.d, f.H, f.M, f.S)]

strptime(s, fmt) ==
    StrptimeResult(StrptimeScan(s, fmt, [ok |-> TRUE, Y |-> 1900, m |-> 1, d |-> 1,
                                         H |-> 0, M |-> 0, S |-> 0]))

(***************************************************************************)
(* dateutil.parser.parse, for the report's date wording: D-Mon-YYYY or     *)
(* DD-Mon-YYYY (month name in any case), then optionally " HH:MM" and      *)
(* ":SS".  A missing time is 00:00:00.                                     *)
(***************************************************************************)
NoDate == [ok |-> FALSE, dt |-> DateTime(1, 1, 1, 0, 0, 0), len |-> 0]

OneOrZero(ms) == IF ms = {} THEN 0 ELSE CHOOSE m \in ms : TRUE

\* The month of a name, 0 for none.
MonthOf(name) == OneOrZero({m \in 1..12 : lower(MonthAbbr[m]) = lower(name)})

TwoDigitsAt(s, p) == p + 1 <= Len(s) /\ IsDigit(Char(s, p)) /\ IsDigit(Char(s, p + 1))

\* The digits of the day at p: 2, 1 or 0 of them.
DayLen(s, p) ==
    IF TwoDigitsAt(s, p) THEN 2
    ELSE IF p >= 1 /\ p <= Len(s) /\ IsDigit(Char(s, p)) THEN 1 ELSE 0

\* "-Mon-YYYY" at q.
HasDateAt(s, q) ==
    /\ q + 8 <= Len(s)
    /\ Char(s, q) = "-"
    /\ MonthOf(SubSeq(s, q + 1, q + 3)) /= 0
    /\ Char(s, q + 4) = "-"
    /\ AllDigits(SubSeq(s, q + 5, q + 8))

\* " HH:MM" at r, and ":SS" at r.
HasHMAt(s, r) ==
    /\ r + 5 <= Len(s)
    /\ Char(s, r) = " "
    /\ TwoDigitsAt(s, r + 1)
    /\ Char(s, r + 3) = ":"
    /\ TwoDigitsAt(s, r + 4)

HasSAt(s, r) == r + 2 <= Len(s) /\ Char(s, r) = ":" /\ TwoDigitsAt(s, r + 1)

TimeFields(s, r, hasHM, hasS) ==
    [hour   |-> IF hasHM THEN ToInt(SubSeq(s, r + 1, r + 2)) ELSE 0,
     minute |-> IF hasHM THEN ToInt(SubSeq(s, r + 4, r + 5)) ELSE 0,
     second |-> IF hasS THEN ToInt(SubSeq(s, r + 7, r + 8)) ELSE 0,
     len    |-> (IF hasHM THEN 6 ELSE 0) + (IF hasS THEN 3 ELSE 0)]

TimeAt(s, r) == TimeFields(s, r, HasHMAt(s, r), HasHMAt(s, r) /\ HasSAt(s, r + 6))

ParsedFields(y, mo, d, t, dlen) ==
    [ok  |-> ValidDateTime(y, mo, d, t.hour, t.minute, t.second),
     dt  |-> DateTime(y, mo, d, t.hour, t.minute, t.second),
     len |-> dlen + 9 + t.len]

ParseDate(s, p, dlen) ==
    IF dlen = 0 \/ ~HasDateAt(s, p + dlen) THEN NoDate
    ELSE ParsedFields(ToInt(SubSeq(s, p + dlen + 5, p + dlen + 8)),
                      MonthOf(SubSeq(s, p + dlen + 1, p + dlen + 3)),
                      ToInt(SubSeq(s, p, p + dlen - 1)),
                      TimeAt(s, p + dlen + 9), dlen)

\* The date/time token that starts at position p (1-based) of s, if any.
ParseAt(s, p) == ParseDate(s, p, DayLen(s, p))

WholeText(r, text) == [ok |-> r.ok /\ r.len = Len(text), dt |-> r.dt]

\* parser.parse(text): the whole text is one date/time; ok is FALSE where
\* it raises ValueError.
parse(text) == WholeText(ParseAt(text, 1), text)

FirstToken(text, at) ==
    IF at = {} THEN [ok |-> FALSE, dt |-> NoDate.dt]
    ELSE [ok |-> TRUE, dt |-> ParseAt(text, SetMin(at)).dt]

\* parser.parse(text, fuzzy_with_tokens=True, ignoretz=True)[0]: the first
\* date/time token of the text, the prose around it skipped.
parse_fuzzy(text) ==
    FirstToken(text, {p \in 1..Len(text) :
                         /\ ParseAt(text, p).ok
                         /\ (p = 1 \/ ~IsDigit(Char(text, p - 1)))})

(***************************************************************************)
(* dateutil.relativedelta.relativedelta(dt1, dt2).years                    *)
(***************************************************************************)
Sign(k) == IF k < 0 THEN -1 ELSE 1

\* relativedelta._set_months: the years and the months left over.
YearsOf(months) == Sign(months) * ((months * Sign(months)) \div 12)

MonthsOf(months) == Sign(months) * ((months * Sign(months)) % 12)

ClipDay(dt, y, m) ==
    [dt EXCEPT !.year = y, !.month = m,
               !.day = IF dt.day > DaysInMonth(y, m) THEN DaysInMonth(y, m) ELSE dt.day]

CarryMonth(dt, y, m0) ==
    IF m0 > 12 THEN ClipDay(dt, y + 1, m0 - 12)
    ELSE IF m0 < 1 THEN ClipDay(dt, y - 1, m0 + 12)
    ELSE ClipDay(dt, y, m0)

\* dt + relativedelta(months=months): the day is clipped to the month.
AddMonths(dt, months) ==
    CarryMonth(dt, dt.year + YearsOf(months), dt.month + MonthsOf(months))

\* The loop of relativedelta.__init__: months moves toward zero until
\* dt2 + months no longer passes dt1.
RECURSIVE DeltaMonths(_, _, _)
DeltaMonths(dt1, dt2, months) ==
    IF DtLess(dt1, dt2)
    THEN (IF DtLess(AddMonths(dt2, months), dt1)
          THEN DeltaMonths(dt1, dt2, months + 1) ELSE months)
    ELSE (IF DtLess(dt1, AddMonths(dt2, months))
          THEN DeltaMonths(dt1, dt2, months - 1) ELSE months)

relativedelta_years_by_year(dt1, dt2) == dt1.year - dt2.year

relativedelta_years(dt1, dt2) ==
    YearsOf(DeltaMonths(dt1, dt2, (dt1.year - dt2.year) * 12 + (dt1.month - dt2.month)))

(***************************************************************************)
(* Python containers.                                                      *)
(***************************************************************************)
\* A list index is in range.
IndexOk(i, n) == -n <= i /\ i < n

\* The 1-based position of Python index i in a list of n items.
Pos(i, n) == IF i < 0 THEN i + n + 1 ELSE i + 1

\* A dict as the sequence of its items [k, v], in insertion order.
DictHas(d, k) == \E j \in 1..Len(d) : d[j].k = k

DictGet(d, k) == d[CHOOSE j \in 1..Len(d) : d[j].k = k].v

\* d[k] = v
DictSet(d, k, v) ==
    IF DictHas(d, k)
    THEN [j \in 1..Len(d) |-> IF d[j].k = k THEN [k |-> k, v |-> v] ELSE d[j]]
    ELSE Append(d, [k |-> k, v |-> v])

\* list(d)[0]: the first key of a dict.
first_key(d) == d[1].k

\* The table after a read that resets the entry it reads.
ResettingRead(table, mrn) == (mrn :> << >>) @@ table

\* The table after table[mrn] is read: a defaultdict(dict) inserts an empty
\* dict under a key it does not hold.
DefaultRead(table, mrn) ==
    IF mrn \in DOMAIN table THEN table ELSE table @@ (mrn :> << >>)

(***************************************************************************)
(* The documents.  An element is a tspan of the rendered SVG: its text and *)
(* its x attribute, each a sequence of zero (None, no attribute) or one    *)
(* string.                                                                 *)
(***************************************************************************)
Element(text) == [text |-> <<text>>, x |-> <<"72 80 88">>]

\* Element.clear()
clear(e) == [text |-> << >>, x |-> << >>]

out_dir == "Deidentified_ECGs"

\* os.path.join on the program's platform.
path_join(dir, file) == dir \o "\\" \o file

\* PDFtoSVG's phi_svg, and the page file mutool writes and deidentify reads.
phi_svg_path(file) == path_join(out_dir, BeforeFirst(file, ".") \o ".svg")

page_svg_path(file) == BeforeFirst(phi_svg_path(file), ".") \o "1.svg"

(***************************************************************************)
(* deidentify, lines 90-112: the field locator.                            *)
(***************************************************************************)
match_terms0 == <<"mrn", "ghs", "25mm/s", "refby", "confby", "prtaxes", "technician">>

ele_pattern ==
    ("mrn" :> "ID:") @@ ("ghs" :> "Geisinger Health System") @@ ("25mm/s" :> "25mm/s")
    @@ ("refby" :> "Referred by:") @@ ("confby" :> "Confirmed By:")
    @@ ("prtaxes" :> "P-R-T axes") @@ ("technician" :> "Technician:")

RemoveAt(seq, k) == SubSeq(seq, 1, k - 1) \o SubSeq(seq, k + 1, Len(seq))

\* The loop over enumerate(texts): the first remaining term whose pattern
\* matches text i takes index i and leaves the search.
RECURSIVE ScanTexts(_, _, _, _)
RECURSIVE ScanText(_, _, _, _, _)
ScanText(texts, i, match_terms, ele_idx, hits) ==
    IF hits = {} THEN ScanTexts(texts, i + 1, match_terms, ele_idx)
    ELSE ScanTexts(texts, i + 1, RemoveAt(match_terms, SetMin(hits)),
                   ele_idx @@ (match_terms[SetMin(hits)] :> i))

ScanTexts(texts, i, match_terms, ele_idx) ==
    IF i >= Len(texts) THEN ele_idx
    ELSE ScanText(texts, i, match_terms, ele_idx,
                  {k \in 1..Len(match_terms) :
                      re_match(ele_pattern[match_terms[k]], texts[i + 1])})

\* ele_idx after the scan: the terms that matched, each with its index.  A
\* term outside the domain still holds its pattern string.
Locate(elements) ==
    ScanTexts([i \in 1..Len(elements) |-> elements[i].text[1]], 0, match_terms0, << >>)

(***************************************************************************)
(* deidentify, lines 192-227: the findings.                                *)
(***************************************************************************)
strf_ecg == "%d-%b-%Y %H:%M:%S"
strf_ecg_alt == "%d-%b-%Y %H:%M"
strf_date == "%d-%b-%Y"

\* The format the punctuation counts select; "" where none does.
finding_format(text) ==
    IF count(text, "-") = 2 /\ count(text, ":") = 2 THEN strf_ecg
    ELSE IF count(text, "-") = 2 /\ count(text, ":") = 1 THEN strf_ecg_alt
    ELSE IF count(text, "-") = 2 /\ count(text, ":") = 0 THEN strf_date
    ELSE ""

shift_finding_by_dates(finding_dt, ecg_date, deid_ecg_date) ==
    DtMinus(finding_dt, timedelta(toordinal(ecg_date) - toordinal(deid_ecg_date), 0))

shift_finding_forward(finding_dt, ecg_date, deid_ecg_date) ==
    DtMinus(finding_dt, DtDiff(deid_ecg_date, ecg_date))

\* Line 198.
shift_finding(finding_dt, ecg_date, deid_ecg_date) ==
    DtMinus(finding_dt, DtDiff(ecg_date, deid_ecg_date))

SpliceAt(text, idx, deid_findingdt) ==
    SliceTo(text, idx) \o deid_findingdt \o SliceFrom(text, idx + Len(deid_findingdt))

\* Lines 222-227.
splice(text, phi_date, deid_findingdt) ==
    SpliceAt(text, find(lower(text), lower(phi_date)), deid_findingdt)

\* Lines 198-227 for a text that parsed: "unknown" (the else branch) or
\* "spliced".
rewrite_text(e, text, finding_dt, fmt, ecg_date, deid_ecg_date) ==
    IF fmt = "" THEN [kind |-> "unknown", e |-> e]
    ELSE [kind |-> "spliced",
          e |-> [e EXCEPT !.text =
                    <<splice(text, strftime(finding_dt, fmt),
                             upper(strftime(shift_finding(finding_dt, ecg_date,
                                                          deid_ecg_date), fmt)))>>]]

ParsedText(e, text, finding_dt, ecg_date, deid_ecg_date) ==
    IF ~finding_dt.ok THEN [kind |-> "continue", e |-> e]
    ELSE rewrite_text(e, text, finding_dt.dt, finding_format(text), ecg_date, deid_ecg_date)

\* One pass of the loop body: "raise" (the text is None, a TypeError),
\* "continue" (no date), "unknown" or "spliced".
rewrite_finding(e, ecg_date, deid_ecg_date) ==
    IF e.text = << >> THEN [kind |-> "raise", e |-> e]
    ELSE ParsedText(e, e.text[1], parse_fuzzy(e.text[1]), ecg_date, deid_ecg_date)

\* for finding in range(finding, finding_end)
RECURSIVE rewrite_findings(_, _, _, _, _)
RECURSIVE FindingStep(_, _, _, _, _, _)
FindingStep(elements, finding, finding_end, ecg_date, deid_ecg_date, r) ==
    IF r.kind \in {"raise", "unknown"}
    THEN [kind |-> r.kind, elements |-> elements, at |-> finding]
    ELSE rewrite_findings([elements EXCEPT ![finding + 1] = r.e], finding + 1,
                          finding_end, ecg_date, deid_ecg_date)

rewrite_findings(elements, finding, finding_end, ecg_date, deid_ecg_date) ==
    IF finding >= finding_end THEN [kind |-> "done", elements |-> elements, at |-> finding]
    ELSE FindingStep(elements, finding, finding_end, ecg_date, deid_ecg_date,
                     rewrite_finding(elements[finding + 1], ecg_date, deid_ecg_date))

(***************************************************************************)
(* deidentify.  Its outcome: "written" (tree.write ran), "returned" (a     *)
(* logged failure) or "raised" (an exception left the function); with the  *)
(* lines it appended to error_log.txt, the key tables as the call left     *)
(* them, the elements written, their path, and whether the page file is    *)
(* left in the output directory.                                           *)
(***************************************************************************)
Outcome(status, lines, ecg_key, id_key, elements, path, page) ==
    [status |-> status, log |-> lines, ecg_key |-> ecg_key, id_key |-> id_key,
     elements |-> elements, path |-> path, page |-> page]

\* Lines 151-155: the text replaced, the per-glyph x coordinates dropped.
set_text_x(elements, at, text) ==
    [elements EXCEPT ![at] = [text |-> <<text>>, x |-> <<BeforeFirst(@.x[1], " ")>>]]

set_text(elements, at, text) == [elements EXCEPT ![at].text = <<text>>]

clear_at(elements, at) == [elements EXCEPT ![at] = clear(@)]

\* The text of lines 157-160.
bday_text(deid_bday, deid_ecg_date) ==
    upper(strftime(deid_bday, strf_date)) \o " ("
    \o IntStr(relativedelta_years(deid_ecg_date, deid_bday)) \o " yr)"

\* Lines 165-190: one try block.  An unmatched term still holds its pattern
\* string, and indexing the list with it raises the TypeError caught here.
relabel(r, ele_idx, term, label, shown, phi_ecg) ==
    IF term \in DOMAIN ele_idx
    THEN [elements |-> set_text(r.elements, Pos(ele_idx[term], Len(r.elements)), label),
          log |-> r.log]
    ELSE [elements |-> r.elements,
          log |-> Append(r.log, "Please verify that " \o phi_ecg \o " has no \""
                                \o shown \o "\" field")]

\* The output path of lines 229-233.
output_path(pt_id, deid_ecg_date) ==
    out_dir \o "/" \o pt_id \o "_" \o strftime(deid_ecg_date, "%Y-%m-%d") \o "_EKG.svg"

\* The end of the findings loop with the else branch falling through to the
\* write.
deidentify_write_through(phi_ecg, lines, f, path, ecg_key, id_key) ==
    CASE f.kind = "raise" -> Outcome("raised", lines, ecg_key, id_key, << >>, "", TRUE)
      [] OTHER -> Outcome("written", lines, ecg_key, id_key, f.elements, path, FALSE)

\* Lines 213-241: the end of the findings loop; the file is written after it.
deidentify_write(phi_ecg, lines, f, path, ecg_key, id_key) ==
    CASE f.kind = "raise" -> Outcome("raised", lines, ecg_key, id_key, << >>, "", TRUE)
      [] f.kind = "unknown" ->
           Outcome("returned",
                   Append(lines, phi_ecg \o " Unknown DT in finding: "
                                 \o f.elements[f.at + 1].text[1]),
                   ecg_key, id_key, << >>, "", TRUE)
      [] f.kind = "done" -> Outcome("written", lines, ecg_key, id_key, f.elements, path, FALSE)

\* Lines 192-233.  With no "25mm/s" element, finding_end is the pattern
\* string and range() raises TypeError.
deidentify_findings(mrn, doc, ele_idx, ecg_date, deid_ecg_date, r, ecg_key, id_key) ==
    IF "25mm/s" \notin DOMAIN ele_idx
    THEN Outcome("raised", r.log, ecg_key, id_key, << >>, "", TRUE)
    ELSE deidentify_write(path_join(doc.dir, doc.file), r.log,
                          rewrite_findings(r.elements, ele_idx["ghs"] + 1, ele_idx["25mm/s"],
                                           ecg_date, deid_ecg_date),
                          output_path(first_key(id_key[mrn]), DictGet(ecg_key[mrn], ecg_date)),
                          ecg_key, id_key)

\* Lines 151-163: the name, the ECG date, the birthday and age, then the
\* last element and the ID element cleared.
redact_fields(elements, n, ele_idx, pt_id, deid_ecg_date, bday) ==
    clear_at(
      clear_at(
        set_text(
          set_text_x(
            set_text_x(elements, Pos(ele_idx["mrn"] - 1, n), pt_id),
            Pos(ele_idx["mrn"] + 1, n), strftime(deid_ecg_date, strf_ecg)),
          Pos(ele_idx["prtaxes"] + 1, n), bday),
        n),
      Pos(ele_idx["mrn"], n))

\* Lines 148-190, then the rest.  An index past the end raises IndexError.
deidentify_redact(mrn, doc, ele_idx, ecg_date, pt_id, deid_ecg_date, ecg_key, id_key) ==
    IF ~IndexOk(ele_idx["prtaxes"] + 1, Len(doc.elements))
    THEN Outcome("raised", << >>, ecg_key, id_key, << >>, "", TRUE)
    ELSE deidentify_findings(mrn, doc, ele_idx, ecg_date, deid_ecg_date,
            relabel(
              relabel(
                relabel([elements |->
                            redact_fields(doc.elements, Len(doc.elements), ele_idx, pt_id,
                                          deid_ecg_date,
                                          bday_text(DictGet(id_key[mrn], pt_id),
                                                    DictGet(ecg_key[mrn], ecg_date))),
                         log |-> << >>],
                        ele_idx, "technician", "Technician:", "Technician:",
                        path_join(doc.dir, doc.file)),
                ele_idx, "confby", "Confirmed By:", "Confirmed by:",
                path_join(doc.dir, doc.file)),
              ele_idx, "refby", "Referred by:", "Referred by:",
              path_join(doc.dir, doc.file)),
            ecg_key, id_key)

\* Lines 136-146: the surrogate date of the ECG.  ecg_key is as the read of
\* ecg_key[mrn] leaves it.
deidentify_ecg_key(mrn, doc, ele_idx, ecg_date, pt_id, ecg_key, id_key) ==
    IF ~DictHas(ecg_key[mrn], ecg_date)
    THEN Outcome("returned",
                 <<"MRN " \o mrn \o ": ECG date " \o strftime(ecg_date, "%Y-%m-%d %H:%M:%S")
                   \o " is not present in ECG key">>,
                 ecg_key, id_key, << >>, "", TRUE)
    ELSE deidentify_redact(mrn, doc, ele_idx, ecg_date, pt_id,
                           DictGet(ecg_key[mrn], ecg_date), ecg_key, id_key)

\* Lines 126-134: the surrogate identity, the first of the patient's.
\* id_key is as the read of id_key[mrn] leaves it.
deidentify_id_key(mrn, doc, ele_idx, ecg_date, ecg_key, id_key) ==
    IF id_key[mrn] = << >>
    THEN Outcome("returned", <<"MRN " \o mrn \o " not present in ID key">>,
                 ecg_key, id_key, << >>, "", TRUE)
    ELSE deidentify_ecg_key(mrn, doc, ele_idx, ecg_date, first_key(id_key[mrn]),
                            DefaultRead(ecg_key, mrn), id_key)

\* Lines 114-124: the ECG date.
deidentify_ecg_date(mrn, doc, ele_idx, text, ecg_date, ecg_key, id_key) ==
    IF ~ecg_date.ok
    THEN Outcome("returned",
                 <<"ECG " \o path_join(doc.dir, doc.file)
                   \o ": wrong field for IMG_DT: " \o text>>,
                 ecg_key, id_key, << >>, "", TRUE)
    ELSE deidentify_id_key(mrn, doc, ele_idx, ecg_date.dt, ecg_key,
                           DefaultRead(id_key, mrn))

\* Lines 108-115.  A required term that matched nothing still holds its
\* pattern string: 'ID:' - 1, 'Geisinger Health System' + 1 and
\* 'P-R-T axes' + 1 raise TypeError; an index past the end raises IndexError.
deidentify_located(mrn, doc, ele_idx, ecg_key, id_key) ==
    IF ~({"mrn", "ghs", "prtaxes"} \subseteq DOMAIN ele_idx)
    THEN Outcome("raised", << >>, ecg_key, id_key, << >>, "", TRUE)
    ELSE IF ~IndexOk(ele_idx["mrn"] + 1, Len(doc.elements))
    THEN Outcome("raised", << >>, ecg_key, id_key, << >>, "", TRUE)
    ELSE deidentify_ecg_date(mrn, doc, ele_idx,
             doc.elements[Pos(ele_idx["mrn"] + 1, Len(doc.elements))].text[1],
             parse(doc.elements[Pos(ele_idx["mrn"] + 1, Len(doc.elements))].text[1]),
             ecg_key, id_key)

\* Lines 69-106.
deidentify(mrn, doc, ecg_key, id_key) ==
    IF ~doc.renders
    THEN Outcome("returned", <<"Error converting " \o doc.file \o ": None">>,
                 ecg_key, id_key, << >>, "", FALSE)
    ELSE deidentify_located(mrn, doc, Locate(doc.elements), ecg_key, id_key)

(***************************************************************************)
(* main, lines 248-262: the key tables, from the rows of the two CSV       *)
(* files (the header row included).  ok is FALSE where strptime raises.    *)
(***************************************************************************)
RECURSIVE load_ecg_key(_, _, _)
RECURSIVE load_ecg_row(_, _, _, _, _)
load_ecg_row(rows, j, table, real, deid) ==
    IF ~deid.ok THEN [ok |-> FALSE, table |-> table]
    ELSE IF ~real.ok THEN [ok |-> FALSE, table |-> DefaultRead(table, rows[j][1])]
    ELSE load_ecg_key(rows, j + 1,
             [DefaultRead(table, rows[j][1]) EXCEPT ![rows[j][1]] =
                  DictSet(@, real.dt, deid.dt)])

load_ecg_key(rows, j, table) ==
    IF j > Len(rows) THEN [ok |-> TRUE, table |-> table]
    ELSE load_ecg_row(rows, j, table, strptime(rows[j][2], "%Y-%m-%d %H:%M:%S"),
                      strptime(rows[j][3], "%Y-%m-%d %H:%M:%S"))

RECURSIVE load_id_key(_, _, _)
RECURSIVE load_id_row(_, _, _, _)
load_id_row(rows, j, table, bday) ==
    IF ~bday.ok THEN [ok |-> FALSE, table |-> table]
    ELSE load_id_key(rows, j + 1,
             [DefaultRead(table, rows[j][1]) EXCEPT ![rows[j][1]] =
                  DictSet(@, rows[j][2], bday.dt)])

load_id_key(rows, j, table) ==
    IF j > Len(rows) THEN [ok |-> TRUE, table |-> table]
    ELSE load_id_row(rows, j, table, strptime(rows[j][3], "%Y-%m-%d"))

(***************************************************************************)
(* The inputs: the two key files and the documents under the input         *)
(* directory, each in the folder named after its MRN.                      *)
(***************************************************************************)
EcgCsv ==
    << <<"MRN", "ECG_DATE", "ECG_DATE_DEID">>,
       <<"12345", "2020-03-15 10:30:00", "2000-01-01 00:00:00">>,
       <<"12345", "2020-03-15 16:45:10", "2000-01-01 06:15:10">>,
       <<"12345", "2020-03-20 08:00:00", "2000-01-05 21:30:00">>,
       <<"777", "2019-07-04 09:00:00", "2009-07-06 09:00:00">> >>

EcgCsvMalformed ==
    << <<"MRN", "ECG_DATE", "ECG_DATE_DEID">>,
       <<"12345", "2020-03-15 10:30:00", "2000-01-01 00:00:00">>,
       <<"777", "04-Jul-2019 09:00", "2009-07-06 09:00:00">> >>

IdCsv ==
    << <<"MRN", "PT_ID", "BDAY_DEID">>,
       <<"12345", "PT001", "1950-01-10">>,
       <<"777", "PT007", "1960-05-22">>,
       <<"777", "PT008", "1961-01-01">>,
       <<"555", "PT005", "1940-12-31">> >>

Doc(file, dir, renders, texts) ==
    [file |-> file, dir |-> dir, renders |-> renders,
     elements |-> [i \in 1..Len(texts) |-> Element(texts[i])]]

Header(date) == <<"DOE, JOHN", "ID:000012345", date>>
Banner == <<"Geisinger Health System">>
Speed == <<"25mm/s 10mm/mV 150Hz">>
Axes(bday) == <<"P-R-T axes 45 30 60", bday>>
Staff == <<"Referred by: DR A", "Confirmed By: DR B", "Technician: TEC">>
Last == <<"EID:7 EDT: ORDER: ACCOUNT:">>

Report(date, findings, bday) ==
    Header(date) \o Banner \o findings \o Speed \o Axes(bday) \o Staff \o Last

DocPool ==
    { \* the end-to-end scenario
      Doc("e1.pdf", "ecgs\\12345", TRUE,
          Report("15-Mar-2020 10:30:00",
                 <<"Normal sinus rhythm", "Compared to prior ECG dated 14-Mar-2020">>,
                 "10-JAN-1950 (70 yr)")),
      \* the same patient later that day: a full and a seconds-less datetime
      Doc("e2.pdf", "ecgs\\12345", TRUE,
          Report("15-Mar-2020 16:45:10",
                 <<"Confirmed 15-Mar-2020 17:00:05", "Prior 14-Mar-2020 23:59 reviewed">>,
                 "10-JAN-1950 (70 yr)")),
      \* a date worded with a one-digit day, and one after two colons
      Doc("e3.pdf", "ecgs\\12345", TRUE,
          Report("20-Mar-2020 08:00:00",
                 <<"Compared to ECG of 4-Mar-2020", "Note: rate: 19-Mar-2020 ok">>,
                 "10-JAN-1950 (70 yr)")),
      \* a third dash beside the date
      Doc("e4.pdf", "ecgs\\12345", TRUE,
          Report("15-Mar-2020 10:30:00",
                 <<"Re-check on 14-Mar-2020">>, "10-JAN-1950 (70 yr)")),
      \* the date field holds no date
      Doc("e5.pdf", "ecgs\\12345", TRUE,
          Report("not recorded", <<"Normal sinus rhythm">>, "10-JAN-1950 (70 yr)")),
      \* the renderer fails
      Doc("e6.pdf", "ecgs\\12345", FALSE, << >>),
      \* a patient with two surrogate identities, a whole-day offset, no staff lines
      Doc("s1.pdf", "ecgs\\777", TRUE,
          Header("04-Jul-2019 09:00:00") \o Banner
          \o <<"Since 03-Jul-2019 unchanged">> \o Speed
          \o Axes("20-MAY-1970 (49 yr)") \o Last),
      \* an MRN in neither key
      Doc("n1.pdf", "ecgs\\99999", TRUE,
          Report("15-Mar-2020 10:30:00", <<"Normal sinus rhythm">>, "01-FEB-1980 (40 yr)")),
      \* an MRN in the identity key only
      Doc("k1.pdf", "ecgs\\555", TRUE,
          Report("15-Mar-2020 10:30:00", <<"Normal sinus rhythm">>, "01-FEB-1980 (40 yr)")),
      \* a required anchor is missing: ID:, the banner, 25mm/s, P-R-T axes
      Doc("a1.pdf", "ecgs\\12345", TRUE,
          <<"DOE, JOHN", "15-Mar-2020 10:30:00">> \o Banner \o <<"Normal sinus rhythm">>
          \o Speed \o Axes("10-JAN-1950 (70 yr)") \o Staff \o Last),
      Doc("a2.pdf", "ecgs\\12345", TRUE,
          Header("15-Mar-2020 10:30:00") \o <<"Normal sinus rhythm">>
          \o Speed \o Axes("10-JAN-1950 (70 yr)") \o Staff \o Last),
      Doc("a3.pdf", "ecgs\\12345", TRUE,
          Header("15-Mar-2020 10:30:00") \o Banner \o <<"Normal sinus rhythm">>
          \o Axes("10-JAN-1950 (70 yr)") \o Staff \o Last),
      Doc("a4.pdf", "ecgs\\12345", TRUE,
          Header("15-Mar-2020 10:30:00") \o Banner \o <<"Normal sinus rhythm">>
          \o Speed \o <<"10-JAN-1950 (70 yr)">> \o Staff \o Last) }

\* The files os.walk can yield: each document once, in any order.
Batches ==
    UNION { {b \in [1..k -> DocPool] : \A i, j \in 1..k : i /= j => b[i] /= b[j]}
            : k \in 1..MaxBatch }

(***************************************************************************)
(* The state: main's position and the index of the next file of the walk;  *)
(* the inputs; the key tables; error_log.txt; the de-identified files of   *)
(* the output directory by path, the calls of tree.write in order, and the *)
(* page files PDFtoSVG left in the output directory.                       *)
(***************************************************************************)
VARIABLES pc, next, batch, ecg_csv, id_csv, ecg_key, id_key, log, out_files, writes, pages

vars == <<pc, next, batch, ecg_csv, id_csv, ecg_key, id_key, log, out_files, writes, pages>>

Init ==
    /\ pc = "start"
    /\ next = 1
    /\ batch \in Batches
    /\ ecg_csv \in {EcgCsv, EcgCsvMalformed}
    /\ id_csv = IdCsv
    /\ ecg_key = << >>
    /\ id_key = << >>
    /\ log = << >>
    /\ out_files = << >>
    /\ writes = << >>
    /\ pages = {}

\* The tables and main's position after the two loads; the identity key is
\* not read when the ECG key raised.
Loaded(e, i) ==
    /\ ecg_key' = e.table
    /\ id_key' = IF e.ok THEN i.table ELSE << >>
    /\ pc' = IF e.ok /\ i.ok THEN "walk" ELSE "crashed"

\* main, lines 245-267: the log is truncated and the keys are loaded; a
\* malformed row ends the run.
MainLoad ==
    /\ pc = "start"
    /\ Loaded(load_ecg_key(ecg_csv, 2, << >>), load_id_key(id_csv, 2, << >>))
    /\ log' = <<"BEGIN LOGGING">>
    /\ UNCHANGED <<next, batch, ecg_csv, id_csv, out_files, writes, pages>>

\* The state after deidentify(doc) ended as r.
Returned(doc, r) ==
    /\ ecg_key' = r.ecg_key
    /\ id_key' = r.id_key
    /\ log' = log \o r.log
    /\ out_files' = IF r.status = "written"
                    THEN [f \in DOMAIN out_files \cup {r.path} |->
                             IF f = r.path THEN r.elements ELSE out_files[f]]
                    ELSE out_files
    /\ writes' = IF r.status = "written"
                 THEN Append(writes, [doc |-> next, path |-> r.path])
                 ELSE writes
    /\ pages' = IF r.page THEN pages \cup {page_svg_path(doc.file)}
                ELSE pages \ {page_svg_path(doc.file)}
    /\ pc' = IF r.status = "raised" THEN "crashed" ELSE "walk"

\* main, lines 269-273: one turn of the loop, the MRN being the name of the
\* file's folder.  An exception that leaves deidentify leaves main too.
CallDeidentify ==
    /\ pc = "walk"
    /\ next <= Len(batch)
    /\ Returned(batch[next],
                deidentify(AfterLast(batch[next].dir, "\\"), batch[next], ecg_key, id_key))
    /\ next' = next + 1
    /\ UNCHANGED <<batch, ecg_csv, id_csv>>

\* main returns after the last file.
MainReturn ==
    /\ pc = "walk"
    /\ next > Len(batch)
    /\ pc' = "done"
    /\ UNCHANGED <<next, batch, ecg_csv, id_csv, ecg_key, id_key, log, out_files, writes, pages>>

Next == MainLoad \/ CallDeidentify \/ MainReturn

Spec == Init /\ [][Next]_vars

(***************************************************************************)
(* What the claims read off the inputs and the outputs.                    *)
(***************************************************************************)
RequiredAnchors == {"ID:", "Geisinger Health System", "25mm/s", "P-R-T axes"}

HasAnchor(d, a) == \E i \in 1..Len(d.elements) : re_match(a, d.elements[i].text[1])

\* The 1-based place of the first element that starts with a.
AnchorAt(d, a) ==
    SetMin({i \in 1..Len(d.elements) : re_match(a, d.elements[i].text[1])})

MissingAnchor(d) == d.renders /\ \E a \in RequiredAnchors : ~HasAnchor(d, a)

AllAnchors(d) == d.renders /\ \A a \in RequiredAnchors : HasAnchor(d, a)

MrnOf(d) == AfterLast(d.dir, "\\")

DatePlace(d) == AnchorAt(d, "ID:") + 1

BdayPlace(d) == AnchorAt(d, "P-R-T axes") + 1

FindingPlaces(d) ==
    (AnchorAt(d, "Geisinger Health System") + 1)..(AnchorAt(d, "25mm/s") - 1)

TextAt(d, i) == d.elements[i].text[1]

\* The surrogate identities the identity key file lists for an MRN, and the
\* row of the first.
IdRows(mrn) == {j \in 2..Len(id_csv) : id_csv[j][1] = mrn}

IdsOf(mrn) == {id_csv[j][2] : j \in IdRows(mrn)}

FirstIdRow(mrn) == id_csv[SetMin(IdRows(mrn))]

\* The rows of the ECG key file for an MRN and a real timestamp.
EcgRows(mrn, real) ==
    {j \in 2..Len(ecg_csv) :
        ecg_csv[j][1] = mrn
        /\ ecg_csv[j][2] = strftime(real, "%Y-%m-%d %H:%M:%S")}

RealAnchor(d) == parse(TextAt(d, DatePlace(d))).dt

SurrogateAnchor(d) ==
    strptime(ecg_csv[SetMin(EcgRows(MrnOf(d), RealAnchor(d)))][3], "%Y-%m-%d %H:%M:%S").dt

SurrogateBday(d) == strptime(FirstIdRow(MrnOf(d))[3], "%Y-%m-%d").dt

RealBday(d) == ParseAt(TextAt(d, BdayPlace(d)), 1).dt

\* The whole years from b to a, for b not after a.
WholeYears(a, b) ==
    a.year - b.year
    - (IF \/ a.month < b.month
          \/ a.month = b.month /\ a.day < b.day
          \/ a.month = b.month /\ a.day = b.day /\ SecondOfDay(a) < SecondOfDay(b)
       THEN 1 ELSE 0)

\* The documents deidentify has been called on.
Processed == 1..(next - 1)

\* The writes whose file is still the one in the output directory, the
\* document each wrote and the elements it wrote.
LastWrites ==
    {w \in 1..Len(writes) : \A v \in (w + 1)..Len(writes) : writes[v].path /= writes[w].path}

Src(w) == batch[writes[w].doc]

Out(w) == out_files[writes[w].path]

WrittenDoc(i) == \E w \in 1..Len(writes) : writes[w].doc = i

Logged(line) == \E k \in 1..Len(log) : log[k] = line

\* A findings text that holds a date/time in one of the three recognized
\* punctuation patterns.
Recognized(text) == count(text, "-") = 2 /\ count(text, ":") \in {0, 1, 2}

Dated(text) == \E p \in 1..Len(text) : ParseAt(text, p).ok

DatedFindings(d) ==
    {k \in FindingPlaces(d) : Dated(TextAt(d, k)) /\ Recognized(TextAt(d, k))}

\* The date/times a text shows.
Tokens(text) == {ParseAt(text, p).dt : p \in {q \in 1..Len(text) : ParseAt(text, q).ok}}

\* A datetime as a format with two, one or no colons can show it.
Shown(dt, colons) ==
    IF colons = 2 THEN dt
    ELSE IF colons = 1 THEN [dt EXCEPT !.second = 0]
    ELSE [dt EXCEPT !.hour = 0, !.minute = 0, !.second = 0]

\* The date substring of a findings text: where it starts and how long it is.
DateStart(text) == SetMin({p \in 1..Len(text) : ParseAt(text, p).ok})

DateLen(text) == ParseAt(text, DateStart(text)).len

(***************************************************************************)
(* C1 (as claimed): the output directory holds one file per call of        *)
(* deidentify that reached the write step; no output replaces another's.   *)
(***************************************************************************)
C1_OneFilePerWrite == Cardinality(DOMAIN out_files) = Len(writes)

(***************************************************************************)
(* C2 (as claimed): a document that lacks a required anchor is reported in *)
(* the log, and no error leaves deidentify: main goes on.                  *)
(***************************************************************************)
C2_MissingAnchorReported ==
    \A i \in Processed :
        MissingAnchor(batch[i]) =>
            /\ pc /= "crashed"
            /\ \E k \in 1..Len(log) : find(log[k], batch[i].file) >= 0

(***************************************************************************)
(* C3 (as claimed): the birthday element shows the surrogate birthdate and *)
(* the whole years from the real birthdate to the real ECG timestamp.      *)
(***************************************************************************)
C3_AgeFromRealDates ==
    \A w \in LastWrites :
        Out(w)[BdayPlace(Src(w))].text =
            << upper(strftime(SurrogateBday(Src(w)), "%d-%b-%Y")) \o " ("
               \o IntStr(WholeYears(RealAnchor(Src(w)), RealBday(Src(w)))) \o " yr)" >>

(***************************************************************************)
(* C3 (amended): the birthday element shows the surrogate birthdate and    *)
(* the whole years from the surrogate birthdate to the surrogate ECG       *)
(* timestamp.                                                              *)
(***************************************************************************)
C3_AgeFromSurrogateDates ==
    \A w \in LastWrites :
        Out(w)[BdayPlace(Src(w))].text =
            << upper(strftime(SurrogateBday(Src(w)), "%d-%b-%Y")) \o " ("
               \o IntStr(WholeYears(SurrogateAnchor(Src(w)), SurrogateBday(Src(w))))
               \o " yr)" >>

\* The scenario's patient is written with the age of the surrogate dates, and
\* a patient whose key shifts both dates alike with the real age.
C3_Witness ==
    /\ \E w \in LastWrites :
           /\ TextAt(Src(w), BdayPlace(Src(w))) = "10-JAN-1950 (70 yr)"
           /\ TextAt(Src(w), DatePlace(Src(w))) = "15-Mar-2020 10:30:00"
           /\ Out(w)[BdayPlace(Src(w))].text = <<"10-JAN-1950 (49 yr)">>
    /\ \E w \in LastWrites :
           /\ TextAt(Src(w), BdayPlace(Src(w))) = "20-MAY-1970 (49 yr)"
           /\ Out(w)[BdayPlace(Src(w))].text = <<"22-MAY-1960 (49 yr)">>

(***************************************************************************)
(* C4: the end-to-end scenario, the anchor 15-Mar-2020 10:30:00 mapped to  *)
(* 01-Jan-2000 00:00:00 and a finding dated 14-Mar-2020.                   *)
(***************************************************************************)
ScenarioFindings(w) ==
    {k \in FindingPlaces(Src(w)) :
        /\ TextAt(Src(w), DatePlace(Src(w))) = "15-Mar-2020 10:30:00"
        /\ Out(w)[DatePlace(Src(w))].text = <<"01-Jan-2000 00:00:00">>
        /\ TextAt(Src(w), k) = "Compared to prior ECG dated 14-Mar-2020"}

\* C4 (as claimed): the finding is rewritten to 31-DEC-1999.
C4_FindingIs31Dec ==
    \A w \in LastWrites : \A k \in ScenarioFindings(w) :
        Out(w)[k].text = <<"Compared to prior ECG dated 31-DEC-1999">>

\* C4 (amended): the finding is rewritten to 30-DEC-1999, the date of
\* 14-Mar-2020 00:00:00 less 7379 days 10:30:00.
C4_FindingIs30Dec ==
    \A w \in LastWrites : \A k \in ScenarioFindings(w) :
        Out(w)[k].text = <<"Compared to prior ECG dated 30-DEC-1999">>

C4_Witness == \E w \in LastWrites : ScenarioFindings(w) /= {}

(***************************************************************************)
(* C5 (as claimed): a document is written only if its MRN has exactly one  *)
(* surrogate identity in the identity key; with none or with more than one *)
(* the document is refused.                                                *)
(***************************************************************************)
C5_OnlySingleIdentityWritten ==
    \A i \in Processed : WrittenDoc(i) => Cardinality(IdsOf(MrnOf(batch[i]))) = 1

(***************************************************************************)
(* C6: on every per-document failure path (the renderer fails, the anchor  *)
(* timestamp does not parse, the MRN is absent from the identity key, the  *)
(* anchor timestamp is absent from the ECG key, a findings date is in no   *)
(* recognized format) deidentify returns without writing an output file,   *)
(* and an absent timestamp is logged.                                      *)
(***************************************************************************)
\* The identity lookup of line 127 is reached.
ReachesIdLookup(d) == AllAnchors(d) /\ parse(TextAt(d, DatePlace(d))).ok

DateUnparseable(d) == AllAnchors(d) /\ ~parse(TextAt(d, DatePlace(d))).ok

TimestampAbsent(d) ==
    /\ ReachesIdLookup(d)
    /\ IdsOf(MrnOf(d)) /= {}
    /\ EcgRows(MrnOf(d), RealAnchor(d)) = {}

UnknownFormat(d) ==
    /\ ReachesIdLookup(d)
    /\ \E k \in FindingPlaces(d) : Dated(TextAt(d, k)) /\ ~Recognized(TextAt(d, k))

FailurePath(d) ==
    \/ ~d.renders
    \/ DateUnparseable(d)
    \/ ReachesIdLookup(d) /\ IdsOf(MrnOf(d)) = {}
    \/ TimestampAbsent(d)
    \/ UnknownFormat(d)

C6_NoOutputOnFailure ==
    \A i \in Processed :
        /\ FailurePath(batch[i]) =>
               /\ ~WrittenDoc(i)
               /\ (i = next - 1 => pc /= "crashed")
        /\ TimestampAbsent(batch[i]) =>
               Logged("MRN " \o MrnOf(batch[i]) \o ": ECG date "
                      \o strftime(RealAnchor(batch[i]), "%Y-%m-%d %H:%M:%S")
                      \o " is not present in ECG key")

\* Beside a document that was written, one with an unrecognized findings
\* date or with an absent timestamp has been processed, and main is done.
C6_Witness ==
    /\ pc = "done"
    /\ Len(writes) = 1
    /\ \E i \in Processed : UnknownFormat(batch[i]) \/ TimestampAbsent(batch[i])

(***************************************************************************)
(* C7 (as claimed): the anchor is rewritten to the surrogate timestamp s,  *)
(* and every dated finding t to exactly t - (r - s): the rewritten text    *)
(* shows a timestamp that, with (r - s) added back, is t.                  *)
(***************************************************************************)
C7_ExactShift ==
    \A w \in LastWrites :
        /\ parse(Out(w)[DatePlace(Src(w))].text[1]) =
               [ok |-> TRUE, dt |-> SurrogateAnchor(Src(w))]
        /\ \A k \in DatedFindings(Src(w)) :
               DtMinus(parse_fuzzy(TextAt(Src(w), k)).dt,
                       DtDiff(RealAnchor(Src(w)), SurrogateAnchor(Src(w))))
                   \in Tokens(Out(w)[k].text[1])

(***************************************************************************)
(* C7 (amended): the anchor is rewritten to exactly s, and the rewritten   *)
(* text of every dated finding t shows t - (r - s) as the finding's format *)
(* can show it: whole for a full datetime, without its seconds for a       *)
(* datetime without seconds, without its time of day for a date.           *)
(***************************************************************************)
C7_ShiftAsShown ==
    \A w \in LastWrites :
        /\ parse(Out(w)[DatePlace(Src(w))].text[1]) =
               [ok |-> TRUE, dt |-> SurrogateAnchor(Src(w))]
        /\ \A k \in DatedFindings(Src(w)) :
               Shown(DtMinus(parse_fuzzy(TextAt(Src(w), k)).dt,
                             DtDiff(RealAnchor(Src(w)), SurrogateAnchor(Src(w)))),
                     count(TextAt(Src(w), k), ":"))
                   \in Tokens(Out(w)[k].text[1])

\* A written document holds a full datetime, shifted whole, and a finding
\* whose shifted time the format cannot show.
C7_Witness ==
    \E w \in LastWrites :
        /\ \E k \in DatedFindings(Src(w)) : count(TextAt(Src(w), k), ":") = 2
        /\ \E k \in DatedFindings(Src(w)) :
               DtMinus(parse_fuzzy(TextAt(Src(w), k)).dt,
                       DtDiff(RealAnchor(Src(w)), SurrogateAnchor(Src(w))))
                   \notin Tokens(Out(w)[k].text[1])

(***************************************************************************)
(* C8 (as claimed): once the keys are loaded, no call of deidentify        *)
(* changes either table.                                                   *)
(***************************************************************************)
C8_TablesUnchanged ==
    [][pc = "walk" => (ecg_key' = ecg_key /\ id_key' = id_key)]_vars

\* A table keeps every entry it holds; an entry it gains is empty and is
\* the entry of this MRN.
EntriesKept(old, new, mrn) ==
    /\ \A m \in DOMAIN old : m \in DOMAIN new /\ new[m] = old[m]
    /\ \A m \in DOMAIN new : m \notin DOMAIN old => new[m] = << >> /\ m = mrn

(***************************************************************************)
(* C8 (amended): once the keys are loaded, a call of deidentify changes    *)
(* and removes no entry of either table; all it may add is an empty entry  *)
(* for the MRN it was given, in a table that did not hold that MRN.        *)
(***************************************************************************)
C8_EntriesKept ==
    [][(pc = "walk" /\ next <= Len(batch)) =>
           /\ EntriesKept(id_key, id_key', MrnOf(batch[next]))
           /\ EntriesKept(ecg_key, ecg_key', MrnOf(batch[next]))]_vars

\* Both tables have gained an empty entry for an MRN the key files lack.
C8_Witness ==
    /\ \E m \in DOMAIN id_key : id_key[m] = << >> /\ IdRows(m) = {}
    /\ \E m \in DOMAIN ecg_key :
           ecg_key[m] = << >> /\ \A j \in 2..Len(ecg_csv) : ecg_csv[j][1] /= m

(***************************************************************************)
(* C9 (as claimed): the text left in a dated finding of a recognized       *)
(* pattern has as many '-' and as many ':' as the original text.           *)
(***************************************************************************)
C9_PunctuationKept ==
    \A w \in LastWrites : \A k \in DatedFindings(Src(w)) :
        /\ count(Out(w)[k].text[1], "-") = count(TextAt(Src(w), k), "-")
        /\ count(Out(w)[k].text[1], ":") = count(TextAt(Src(w), k), ":")

\* The text is the original with its date substring, at start (1-based) and
\* len long, replaced by one date/time: what stands before and after the
\* date is kept.
ProseKept(old, new, start, len) ==
    /\ Len(new) >= Len(old) - len
    /\ SubSeq(new, 1, start - 1) = SubSeq(old, 1, start - 1)
    /\ SubSeq(new, Len(new) - (Len(old) - (start + len - 1)) + 1, Len(new))
           = SubSeq(old, start + len, Len(old))
    /\ parse(SubSeq(new, start, Len(new) - (Len(old) - (start + len - 1)))).ok

(***************************************************************************)
(* C10 (as claimed): in a dated finding of a recognized pattern only the   *)
(* date substring is replaced; the text before it and the text after it    *)
(* are kept, whatever the wording of the date.                             *)
(***************************************************************************)
C10_ProseKept ==
    \A w \in LastWrites : \A k \in DatedFindings(Src(w)) :
        ProseKept(TextAt(Src(w), k), Out(w)[k].text[1],
                  DateStart(TextAt(Src(w), k)), DateLen(TextAt(Src(w), k)))

=============================================================================
